---- MODULE Spec2Model ----
(***************************************************************************)
(* Model of the generic tokenizer of the Syntax tool's Rust plugin         *)
(* (src/plugins/rust/templates/tokenizer.template.rs).                     *)
(*                                                                         *)
(* A source string is a sequence of one-byte characters, offsets are       *)
(* 0-based as in the code, sequences are 1-based as in TLA+.  The rule     *)
(* tables (LEX_RULES, LEX_RULES_BY_START_CONDITIONS, the handlers and      *)
(* TOKENS_MAP) are template parameters of the code: the model draws one    *)
(* table from a small set when the tokenizer is created.                   *)
(***************************************************************************)
EXTENDS Integers, Sequences, FiniteSets, TLC

\* Bounds of the model.
MaxLen == 2        \* longest enumerated source string
MaxStack == 2      \* deepest state stack a caller builds with push_state/begin
MaxBuf == 2        \* most entries of yybuffer

---------------------------------------------------------------------------
\* Characters and source strings.

NL == "\n"
Alphabet == {"2", "+", NL}
DIGIT == {"2"}
WS == {" ", NL}

\* The string parsed by the calculator example, and the spec's bad input.
CalcSource == <<"2", " ", "+", " ", "2", " ", "*", " ", "2">>
BadSource == <<"2", " ", "@", " ", "2">>

Sources ==
  UNION {[1..n -> Alphabet] : n \in 0..MaxLen} \cup {CalcSource, BadSource}

\* The end-of-stream marker and the default state.
EOF == "$"
INITIAL == "INITIAL"
StateNames == {INITIAL, "S"}

---------------------------------------------------------------------------
\* Patterns: what re.captures(str_slice) yields for an anchored pattern.

Lit(s) == [kind |-> "lit", lit |-> s, cls |-> {}]
Plus(c) == [kind |-> "plus", lit |-> <<>>, cls |-> c]
Star(c) == [kind |-> "star", lit |-> <<>>, cls |-> c]

\* Length of the longest prefix of s made of characters of class c.
RECURSIVE RunLen(_, _)
RunLen(c, s) ==
  IF s # <<>> /\ Head(s) \in c THEN 1 + RunLen(c, Tail(s)) ELSE 0

\* Length of the match of pattern p at the start of s, -1 when there is none.
MatchLen(p, s) ==
  CASE p.kind = "lit" ->
         IF Len(s) >= Len(p.lit) /\ SubSeq(s, 1, Len(p.lit)) = p.lit
         THEN Len(p.lit) ELSE -1
    [] p.kind = "plus" ->
         IF RunLen(p.cls, s) >= 1 THEN RunLen(p.cls, s) ELSE -1
    [] p.kind = "star" -> RunLen(p.cls, s)

---------------------------------------------------------------------------
\* Rule tables.  A handler returns a token type ("" means skip) and may
\* first replace yytext (synth) and push or pop a state.

Handler(ret, op, st, synth) ==
  [ret |-> ret, op |-> op, st |-> st, synth |-> synth]

Synth == <<"#">>

\* The calculator: whitespace is skipped, NUMBER, "*" and "+" are tokens.
CalcTable ==
  [rules |-> <<Plus(WS), Plus(DIGIT), Lit(<<"*">>), Lit(<<"+">>)>>,
   handlers |-> <<Handler("", "none", "", <<>>),
                  Handler("NUMBER", "none", "", <<>>),
                  Handler("*", "none", "", <<>>),
                  Handler("+", "none", "", <<>>)>>,
   byState |-> [s \in {INITIAL} |-> <<1, 2, 3, 4>>]]

\* Two states; in INITIAL the one-digit rule precedes the greedy one.
ModeTable ==
  [rules |-> <<Lit(<<"2">>), Plus(DIGIT), Lit(<<"+">>), Plus(WS),
               Plus(DIGIT), Lit(<<"+">>)>>,
   handlers |-> <<Handler("NUMBER", "none", "", <<>>),
                  Handler("NUMS", "none", "", <<>>),
                  Handler("", "begin", "S", <<>>),
                  Handler("", "none", "", <<>>),
                  Handler("STR", "none", "", Synth),
                  Handler("", "pop", "", <<>>)>>,
   byState |-> [s \in StateNames |->
                  IF s = INITIAL THEN <<1, 2, 3, 4>> ELSE <<5, 6>>]]

\* A rule that can match the empty string.
EmptyTable ==
  [rules |-> <<Star(DIGIT), Lit(<<"2">>), Lit(<<"+">>)>>,
   handlers |-> <<Handler("NUMS", "begin", "S", <<>>),
                  Handler("NUMBER", "none", "", <<>>),
                  Handler("", "pop", "", <<>>)>>,
   byState |-> [s \in StateNames |->
                  IF s = INITIAL THEN <<1>> ELSE <<2, 3>>]]

Tables == {CalcTable, ModeTable, EmptyTable}

TOKENS_MAP ==
  [n \in {EOF, "NUMBER", "NUMS", "STR", "*", "+"} |->
     CASE n = EOF -> 0
       [] n = "NUMBER" -> 1
       [] n = "NUMS" -> 2
       [] n = "STR" -> 3
       [] n = "*" -> 4
       [] n = "+" -> 5]

---------------------------------------------------------------------------
\* The Tokenizer struct and its methods.

Token(kind, value, tk) ==
  [kind |-> kind, value |-> value,
   start_offset |-> tk.token_start_offset,
   end_offset |-> tk.token_end_offset,
   start_line |-> tk.token_start_line,
   end_line |-> tk.token_end_line,
   start_column |-> tk.token_start_column,
   end_column |-> tk.token_end_column]

New ==
  [string |-> <<>>, cursor |-> 0, states |-> <<>>,
   current_line |-> 1, current_column |-> 0, current_line_begin_offset |-> 0,
   token_start_offset |-> 0, token_end_offset |-> 0,
   token_start_line |-> 0, token_end_line |-> 0,
   token_start_column |-> 0, token_end_column |-> 0,
   yytext |-> <<>>, yyleng |-> 0, yybuffer |-> <<>>]

\* A reset that forgets to reset the line counters.
init_string_keeps_line(tk, string) ==
  [tk EXCEPT !.string = string, !.states = <<INITIAL>>, !.cursor = 0,
             !.token_start_offset = 0, !.token_end_offset = 0,
             !.token_start_line = 0, !.token_end_line = 0,
             !.token_start_column = 0, !.token_end_column = 0]

\* A reset that also drops the synthetic text of the previous source.
init_string_clears_buffer(tk, string) ==
  [tk EXCEPT !.string = string, !.states = <<INITIAL>>, !.cursor = 0,
             !.current_line = 1, !.current_column = 0,
             !.current_line_begin_offset = 0,
             !.token_start_offset = 0, !.token_end_offset = 0,
             !.token_start_line = 0, !.token_end_line = 0,
             !.token_start_column = 0, !.token_end_column = 0,
             !.yybuffer = <<>>]

\* A reset that clears the state stack and pushes nothing.
init_string_no_state(tk, string) ==
  [tk EXCEPT !.string = string, !.states = <<>>, !.cursor = 0,
             !.current_line = 1, !.current_column = 0,
             !.current_line_begin_offset = 0,
             !.token_start_offset = 0, !.token_end_offset = 0,
             !.token_start_line = 0, !.token_end_line = 0,
             !.token_start_column = 0, !.token_end_column = 0]

init_string(tk, string) ==
  [tk EXCEPT !.string = string, !.states = <<INITIAL>>, !.cursor = 0,
             !.current_line = 1, !.current_column = 0,
             !.current_line_begin_offset = 0,
             !.token_start_offset = 0, !.token_end_offset = 0,
             !.token_start_line = 0, !.token_end_line = 0,
             !.token_start_column = 0, !.token_end_column = 0]

\* string_ref pushes s on yybuffer and returns a reference to that entry.
string_ref(tk, s) == [tk EXCEPT !.yybuffer = Append(@, s)]

set_yytext(tk, s) == [string_ref(tk, s) EXCEPT !.yytext = s]

has_more_tokens(tk) == tk.cursor <= Len(tk.string)

is_eof(tk) == tk.cursor = Len(tk.string)

\* A lookup that ignores the pushed states.
get_bottom_state(tk) == INITIAL

get_current_state(tk) ==
  IF tk.states = <<>> THEN INITIAL ELSE tk.states[Len(tk.states)]

\* A push that overwrites the current state instead of stacking on it.
push_state_replaces_top(tk, state) ==
  IF tk.states = <<>>
  THEN [tk EXCEPT !.states = <<state>>]
  ELSE [tk EXCEPT !.states[Len(tk.states)] = state]

push_state(tk, state) == [tk EXCEPT !.states = Append(@, state)]

begin(tk, state) == push_state(tk, state)

\* A pop that unwraps: on an empty stack it fails instead of defaulting.
pop_state_unwrap(tk) ==
  IF tk.states = <<>>
  THEN [tk |-> tk, ret |-> "panic"]
  ELSE [tk |-> [tk EXCEPT !.states = SubSeq(@, 1, Len(@) - 1)],
        ret |-> tk.states[Len(tk.states)]]

pop_state(tk) ==
  IF tk.states = <<>>
  THEN [tk |-> tk, ret |-> INITIAL]
  ELSE [tk |-> [tk EXCEPT !.states = SubSeq(@, 1, Len(@) - 1)],
        ret |-> tk.states[Len(tk.states)]]

\* 1-based positions of the newlines of the matched text.
NewlinesOf(matched) == {i \in 1..Len(matched) : matched[i] = NL}

Max(S) == CHOOSE x \in S : \A y \in S : y <= x

\* A location capture that takes the end offset for the start offset.
capture_location_no_length(tk, matched) ==
  LET nls == NewlinesOf(matched)
      line == tk.current_line + Cardinality(nls)
      lbo == IF nls = {} THEN tk.current_line_begin_offset
             ELSE tk.cursor + Max(nls)
  IN [tk EXCEPT !.token_start_offset = tk.cursor,
                !.token_start_line = tk.current_line,
                !.token_start_column = tk.cursor - tk.current_line_begin_offset,
                !.current_line = line,
                !.current_line_begin_offset = lbo,
                !.token_end_offset = tk.cursor,
                !.token_end_line = line,
                !.token_end_column = tk.cursor - lbo,
                !.current_column = tk.cursor - lbo]

capture_location(tk, matched) ==
  LET nls == NewlinesOf(matched)
      line == tk.current_line + Cardinality(nls)
      lbo == IF nls = {} THEN tk.current_line_begin_offset
             ELSE tk.cursor + Max(nls)
      endo == tk.cursor + Len(matched)
  IN [tk EXCEPT !.token_start_offset = tk.cursor,
                !.token_start_line = tk.current_line,
                !.token_start_column = tk.cursor - tk.current_line_begin_offset,
                !.current_line = line,
                !.current_line_begin_offset = lbo,
                !.token_end_offset = endo,
                !.token_end_line = line,
                !.token_end_column = endo - lbo,
                !.current_column = endo - lbo]

\* _match on a successful capture: the location, then the cursor.
_match(tk, matched) ==
  [capture_location(tk, matched) EXCEPT !.cursor = tk.cursor + Len(matched)]

---------------------------------------------------------------------------
\* Outcomes of a call: a token, or one of the panics of get_next_token.

NoToken == Token(-1, <<>>, New)

Tok(t) == [type |-> "token", token |-> t, ch |-> "", line |-> 0, column |-> 0]

Panic(type, ch, line, column) ==
  [type |-> type, token |-> NoToken, ch |-> ch, line |-> line,
   column |-> column]

NoOut == Panic("none", "", 0, 0)

to_token(tk, name) ==
  IF name \in DOMAIN TOKENS_MAP
  THEN Tok(Token(TOKENS_MAP[name], tk.yytext, tk))
  ELSE Panic("no_kind", name, 0, 0)

\* The rule loop: position in list of the first rule that matches, 0 if none.
RECURSIVE FirstFrom(_, _, _, _)
FirstFrom(rules, list, str_slice, k) ==
  IF k > Len(list) THEN 0
  ELSE IF MatchLen(rules[list[k]], str_slice) >= 0 THEN k
  ELSE FirstFrom(rules, list, str_slice, k + 1)

\* A rule loop that prefers the longest match.
LongestMatch(rules, list, str_slice) ==
  LET len(k) == MatchLen(rules[list[k]], str_slice)
      ok == {k \in 1..Len(list) : len(k) >= 0}
  IN IF ok = {} THEN 0
     ELSE CHOOSE k \in ok :
            \A j \in ok : len(j) < len(k) \/ (len(j) = len(k) /\ k <= j)

FirstMatch(rules, list, str_slice) == FirstFrom(rules, list, str_slice, 1)

\* The handler of a rule: it may replace yytext, push or pop a state, and
\* returns the token type.
run_handler(tk, h) ==
  LET t1 == IF h.synth # <<>> THEN set_yytext(tk, h.synth) ELSE tk
      t2 == CASE h.op = "begin" -> begin(t1, h.st)
              [] h.op = "pop" -> pop_state(t1).tk
              [] OTHER -> t1
  IN [tk |-> t2, ret |-> h.ret]

\* An end-of-stream step that leaves the cursor where it is.
eof_no_advance(tk) == [tk EXCEPT !.yytext = <<EOF>>]

\* The end-of-stream step taken when no rule matched at the end of the source.
eof_advance(tk) == [tk EXCEPT !.cursor = @ + 1, !.yytext = <<EOF>>]

\* A failure that steps over the offending character.
panic_unexpected_token_skips(tk, string, line, column) ==
  [tk |-> [tk EXCEPT !.cursor = @ + 1],
   out |-> Panic("unexpected", string, line, column)]

\* panic_unexpected_token: the panic carries the character, line and column
\* it is given; the struct is left as it is.
panic_unexpected_token(tk, string, line, column) ==
  [tk |-> tk, out |-> Panic("unexpected", string, line, column)]

\* An early return that steps the cursor once more.
eof_return_advances(tk) == [tk EXCEPT !.cursor = @ + 1, !.yytext = <<EOF>>]

\* The early return of get_next_token when there are no more tokens.
eof_return(tk) == [tk EXCEPT !.yytext = <<EOF>>]

\* A zero-length match that gets no extra advance.
empty_advance_missing(tk, matched) == tk

\* The extra one-position advance after a zero-length match.
empty_advance(tk, matched) ==
  IF Len(matched) = 0 THEN [tk EXCEPT !.cursor = @ + 1] ELSE tk

\* One pass through the body of get_next_token, up to its return or to its
\* recursive call (again); scan holds the entry of the rule match, if any.
gnt_body(tk, tbl) ==
  IF ~has_more_tokens(tk)
  THEN LET t1 == eof_return(tk)
       IN [tk |-> t1, out |-> to_token(t1, EOF), scan |-> <<>>,
           again |-> FALSE]
  ELSE IF get_current_state(tk) \notin DOMAIN tbl.byState
  THEN [tk |-> tk, out |-> Panic("no_rules", get_current_state(tk), 0, 0),
        scan |-> <<>>, again |-> FALSE]
  ELSE
    LET str_slice == SubSeq(tk.string, tk.cursor + 1, Len(tk.string))
        list == tbl.byState[get_current_state(tk)]
        k == FirstMatch(tbl.rules, list, str_slice)
    IN IF k # 0
       THEN LET i == list[k]
                matched ==
                  SubSeq(str_slice, 1, MatchLen(tbl.rules[i], str_slice))
                t1 == _match(tk, matched)
                t2 == empty_advance(t1, matched)
                t3 == [t2 EXCEPT !.yytext = matched, !.yyleng = Len(matched)]
                h == run_handler(t3, tbl.handlers[i])
                entry == [rule |-> i, states |-> tk.states, at |-> tk.cursor,
                          text |-> matched, ret |-> h.ret]
            IN IF h.ret = ""
               THEN [tk |-> h.tk, out |-> NoOut, scan |-> <<entry>>,
                     again |-> TRUE]
               ELSE [tk |-> h.tk, out |-> to_token(h.tk, h.ret),
                     scan |-> <<entry>>, again |-> FALSE]
       ELSE IF is_eof(tk)
       THEN LET t1 == eof_advance(tk)
            IN [tk |-> t1, out |-> to_token(t1, EOF), scan |-> <<>>,
                again |-> FALSE]
       ELSE LET u == panic_unexpected_token(tk, str_slice[1],
                                            tk.current_line,
                                            tk.current_column)
            IN [tk |-> u.tk, out |-> u.out, scan |-> <<>>, again |-> FALSE]

\* get_next_token; scan collects one entry per rule match of the call.
RECURSIVE get_next_token(_, _, _)
get_next_token(tk, tbl, scan) ==
  LET b == gnt_body(tk, tbl)
  IN IF b.again
     THEN get_next_token(b.tk, tbl, scan \o b.scan)
     ELSE [tk |-> b.tk, out |-> b.out, scan |-> scan \o b.scan]

---------------------------------------------------------------------------
\* The state machine: one tokenizer, driven by its caller.

VARIABLES
  tokenizer,   \* the Tokenizer struct
  table,       \* the rule table the tokenizer was generated with
  last,        \* the last call: its name, the cursor before it, its outcome
  hist         \* the outcomes since the last init_string

vars == <<tokenizer, table, last, hist>>

\* before is the cursor before the call, depth the depth of the state stack
\* before the call.
Call(op, before, out, scan) ==
  [op |-> op, before |-> before.cursor, depth |-> Len(before.states),
   out |-> out, scan |-> scan]

\* hist.emitted is the sequence of outcomes of the get_next_token calls made
\* since the last init_string, up to the first end-of-stream token or panic;
\* it is kept while the caller itself leaves the state stack alone (clean).
\* hist.used tells that init_string found the tokenizer in a used state,
\* hist.inited that init_string has been called, hist.eof that the
\* end-of-stream token has been returned since the last init_string,
\* hist.fails how many get_next_token calls in a row (counted up to two)
\* have just failed with the unexpected-token condition.
NoHist ==
  [emitted |-> <<>>, done |-> FALSE, clean |-> FALSE, used |-> FALSE,
   inited |-> FALSE, eof |-> FALSE, fails |-> 0]

IsEofOut(out) == out.type = "token" /\ out.token.kind = TOKENS_MAP[EOF]

Fails(n, out) ==
  IF out.type # "unexpected" THEN 0 ELSE IF n = 0 THEN 1 ELSE 2

Init ==
  /\ tokenizer = New
  /\ table \in Tables
  /\ last = Call("new", New, NoOut, <<>>)
  /\ hist = NoHist

InitString ==
  \E string \in Sources :
    /\ tokenizer' = init_string(tokenizer, string)
    /\ last' = Call("init_string", tokenizer, NoOut, <<>>)
    /\ hist' = [emitted |-> <<>>, done |-> FALSE, clean |-> TRUE,
                used |-> (tokenizer.cursor > 0 /\ tokenizer.yybuffer # <<>>
                          /\ Len(tokenizer.states) > 1),
                inited |-> TRUE, eof |-> FALSE, fails |-> 0]
    /\ UNCHANGED table

GetNextToken ==
  LET r == get_next_token(tokenizer, table, <<>>)
  IN /\ Len(r.tk.yybuffer) <= MaxBuf
     /\ tokenizer' = r.tk
     /\ last' = Call("get_next_token", tokenizer, r.out, r.scan)
     /\ hist' = IF hist.clean /\ ~hist.done
                THEN [hist EXCEPT !.emitted = Append(@, r.out),
                                  !.done = (r.out.type # "token"
                                            \/ IsEofOut(r.out)),
                                  !.eof = (@ \/ IsEofOut(r.out)),
                                  !.fails = Fails(@, r.out)]
                ELSE [hist EXCEPT !.eof = (@ \/ IsEofOut(r.out)),
                                  !.fails = Fails(@, r.out)]
     /\ UNCHANGED table

CallerTouch ==
  [hist EXCEPT !.clean = FALSE, !.emitted = <<>>, !.done = FALSE,
               !.fails = 0]

PushState ==
  \E state \in StateNames :
    /\ Len(tokenizer.states) < MaxStack
    /\ tokenizer' = push_state(tokenizer, state)
    /\ last' = Call("push_state", tokenizer, NoOut, <<>>)
    /\ hist' = CallerTouch
    /\ UNCHANGED table

Begin ==
  \E state \in StateNames :
    /\ Len(tokenizer.states) < MaxStack
    /\ tokenizer' = begin(tokenizer, state)
    /\ last' = Call("begin", tokenizer, NoOut, <<>>)
    /\ hist' = CallerTouch
    /\ UNCHANGED table

PopState ==
  /\ tokenizer' = pop_state(tokenizer).tk
  /\ last' = Call("pop_state", tokenizer,
                  Panic("state", pop_state(tokenizer).ret, 0, 0), <<>>)
  /\ hist' = CallerTouch
  /\ UNCHANGED table

Next == InitString \/ GetNextToken \/ PushState \/ Begin \/ PopState

Spec == Init /\ [][Next]_vars

---------------------------------------------------------------------------
\* Vocabulary of the properties, computed from the source string alone.

IsGnt == last.op = "get_next_token"
ReturnedToken == IsGnt /\ last.out.type = "token"
ByRuleMatch ==
  ReturnedToken /\ last.scan # <<>> /\ last.scan[Len(last.scan)].ret # ""

TopOf(states) == IF states = <<>> THEN INITIAL ELSE states[Len(states)]
SuffixAt(at) == SubSeq(tokenizer.string, at + 1, Len(tokenizer.string))
ListOf(states) == table.byState[TopOf(states)]
Matches(i, at) == MatchLen(table.rules[i], SuffixAt(at)) >= 0

\* Newlines of the source before offset x, and the offset of x's line start.
NewlinesBefore(x) ==
  Cardinality({i \in 1..x : i <= Len(tokenizer.string)
                            /\ tokenizer.string[i] = NL})
LineStart(x) ==
  LET nls == {i \in 1..x : i <= Len(tokenizer.string)
                           /\ tokenizer.string[i] = NL}
  IN IF nls = {} THEN 0 ELSE Max(nls)

\* The cursor after a match of the given text at offset at.
After(at, text) == at + Len(text) + (IF text = <<>> THEN 1 ELSE 0)

---------------------------------------------------------------------------
\* C1. Priority over length: every match get_next_token records is the match
\* of the first rule, in the list of the state on top of the stack, that
\* matches at the cursor; no rule before it in the list matches there, and a
\* later rule is not chosen even if its match is longer.  The token returned
\* carries that rule's text, offsets and handler result, and the cursor has
\* advanced over that rule's match.
C1_PriorityOverLength ==
  IsGnt =>
    /\ \A n \in 1..Len(last.scan) :
         LET e == last.scan[n]
             list == ListOf(e.states)
         IN \E k \in 1..Len(list) :
              /\ list[k] = e.rule
              /\ \A j \in 1..(k - 1) : ~Matches(list[j], e.at)
              /\ Len(e.text) = MatchLen(table.rules[e.rule], SuffixAt(e.at))
              /\ e.text = SubSeq(SuffixAt(e.at), 1, Len(e.text))
              /\ e.ret = table.handlers[e.rule].ret
    /\ ByRuleMatch =>
         LET e == last.scan[Len(last.scan)]
             t == last.out.token
         IN /\ t.kind = TOKENS_MAP[table.handlers[e.rule].ret]
            /\ t.start_offset = e.at
            /\ t.end_offset = e.at + Len(e.text)
            /\ tokenizer.cursor = After(e.at, e.text)
            /\ table.handlers[e.rule].synth = <<>> => t.value = e.text

\* A token came from rule A although a later rule of the list matches a
\* strictly longer text at the same position.
C1_Witness ==
  /\ ByRuleMatch
  /\ LET e == last.scan[Len(last.scan)]
         list == ListOf(e.states)
     IN \E k, j \in 1..Len(list) :
          /\ list[k] = e.rule
          /\ k < j
          /\ MatchLen(table.rules[list[j]], SuffixAt(e.at)) > Len(e.text)

\* C2. Cursor monotonicity: every token get_next_token returns, the
\* end-of-stream token included, has end_offset >= start_offset >= the cursor
\* before the call, and the call moves the cursor forward unless the cursor
\* was already past the end of the source.
\* (Stated for the calls made after init_string with the cursor not yet past
\* the end of the source.)
C2_CursorMonotonicity ==
  (hist.inited /\ ReturnedToken /\ last.before <= Len(tokenizer.string)) =>
    /\ last.out.token.end_offset >= last.out.token.start_offset
    /\ last.out.token.start_offset >= last.before
    /\ tokenizer.cursor > last.before

\* C3. Position accounting: a token produced by a rule match at offset X has
\* start_line = 1 + the number of newlines before X and start_column = X
\* minus the offset of the start of X's line.
C3_PositionAccounting ==
  (hist.inited /\ ByRuleMatch) =>
    LET t == last.out.token
    IN /\ t.start_line = 1 + NewlinesBefore(t.start_offset)
       /\ t.start_column = t.start_offset - LineStart(t.start_offset)

\* C4. End-of-stream idempotence: once the end-of-stream token has been
\* returned after an init_string, has_more_tokens() is false and every
\* get_next_token call returns the end-of-stream token.
C4_EofIdempotence ==
  hist.eof =>
    /\ ~has_more_tokens(tokenizer)
    /\ IsGnt => IsEofOut(last.out)

\* A get_next_token call made after the end-of-stream token was returned.
C4_Witness ==
  /\ hist.eof
  /\ IsGnt
  /\ last.before > Len(tokenizer.string)
  /\ Len(tokenizer.string) > 0

\* C5. State isolation: every rule get_next_token matches is in the list of
\* the state that was on top of the stack at that attempt; after a handler
\* that pushed or popped a state returned the skip marker, the next attempt
\* uses the list of the new top; and an unexpected-token failure means no
\* rule of the active list matches, whatever the other rules do.
C5_StateIsolation ==
  IsGnt =>
    /\ \A n \in 1..Len(last.scan) :
         LET e == last.scan[n]
             h == table.handlers[e.rule]
             stackAfter ==
               CASE h.op = "begin" -> Append(e.states, h.st)
                 [] h.op = "pop" ->
                      SubSeq(e.states, 1, Len(e.states) - 1)
                 [] OTHER -> e.states
         IN /\ \E k \in 1..Len(ListOf(e.states)) :
                 ListOf(e.states)[k] = e.rule
            /\ IF n < Len(last.scan)
               THEN last.scan[n + 1].states = stackAfter
               ELSE tokenizer.states = stackAfter
    /\ last.out.type = "unexpected" =>
         \A k \in 1..Len(ListOf(tokenizer.states)) :
           ~Matches(ListOf(tokenizer.states)[k], tokenizer.cursor)

\* After a skipping handler changed the state, a rule of the new state
\* matched where a rule outside its list matches as well.
C5_Witness ==
  /\ IsGnt
  /\ \E n \in 2..Len(last.scan) :
       LET e == last.scan[n]
       IN /\ e.states # last.scan[n - 1].states
          /\ \E i \in 1..Len(table.rules) :
               /\ Matches(i, e.at)
               /\ \A k \in 1..Len(ListOf(e.states)) :
                    ListOf(e.states)[k] # i

\* The token sequence of a scan of string by a freshly created tokenizer:
\* get_next_token is called until it returns the end-of-stream token or fails.
RECURSIVE ScanFrom(_, _, _)
ScanFrom(tk, tbl, acc) ==
  LET r == get_next_token(tk, tbl, <<>>)
  IN IF r.out.type # "token" \/ IsEofOut(r.out)
     THEN Append(acc, r.out)
     ELSE ScanFrom(r.tk, tbl, Append(acc, r.out))

FreshScan(string, tbl) == ScanFrom(init_string(New, string), tbl, <<>>)

\* C6. Determinism across reset: the outcomes of the get_next_token calls
\* made after init_string(S), up to the end-of-stream token, are those of a
\* freshly created tokenizer after init_string(S), whatever state (mid-scan,
\* after end-of-stream, extra states pushed, synthetic text in the buffer)
\* the tokenizer was in when init_string was called.
C6_DeterminismAcrossReset ==
  (hist.clean /\ hist.done) =>
    hist.emitted = FreshScan(tokenizer.string, table)

\* A scan of at least two tokens completed after init_string was called
\* mid-scan on a tokenizer with a pushed state and synthetic text.
C6_Witness ==
  /\ hist.clean /\ hist.done /\ hist.used
  /\ Len(hist.emitted) >= 3
  /\ IsEofOut(hist.emitted[Len(hist.emitted)])

\* C7. Unexpected token: the failure is raised only where the cursor is not
\* at the end of the source and no rule of the active state matches, and it
\* carries the character at the cursor with that character's own line
\* (1 + newlines before the cursor) and column (cursor minus line start).
C7_UnexpectedToken ==
  (hist.inited /\ IsGnt /\ last.out.type = "unexpected") =>
    /\ tokenizer.cursor < Len(tokenizer.string)
    /\ \A k \in 1..Len(ListOf(tokenizer.states)) :
         ~Matches(ListOf(tokenizer.states)[k], tokenizer.cursor)
    /\ last.out.ch = tokenizer.string[tokenizer.cursor + 1]
    /\ last.out.line = 1 + NewlinesBefore(tokenizer.cursor)
    /\ last.out.column = tokenizer.cursor - LineStart(tokenizer.cursor)

\* C8. Empty source: after init_string(""), every token get_next_token
\* returns is the end-of-stream token.
C8_EmptySource ==
  (hist.clean /\ tokenizer.string = <<>> /\ ReturnedToken) =>
    IsEofOut(last.out)

\* C9. Token stream shape: the matches of one call are made in source order
\* starting at the cursor; all but the last were skipped (handler returned
\* ""), the last one gives the token, whose kind is that of the name the
\* handler returned and whose offsets bracket the matched text in the
\* source; an end-of-stream token follows skipped matches only.  The
\* calculator's scan of "2 + 2 * 2" is NUMBER, +, NUMBER, *, NUMBER, EOF.
CalcExpected ==
  <<[kind |-> TOKENS_MAP["NUMBER"], value |-> <<"2">>, s |-> 0, e |-> 1],
    [kind |-> TOKENS_MAP["+"], value |-> <<"+">>, s |-> 2, e |-> 3],
    [kind |-> TOKENS_MAP["NUMBER"], value |-> <<"2">>, s |-> 4, e |-> 5],
    [kind |-> TOKENS_MAP["*"], value |-> <<"*">>, s |-> 6, e |-> 7],
    [kind |-> TOKENS_MAP["NUMBER"], value |-> <<"2">>, s |-> 8, e |-> 9]>>

CalcScanDone ==
  /\ hist.clean /\ hist.done
  /\ table = CalcTable
  /\ tokenizer.string = CalcSource

C9_TokenStreamShape ==
  /\ ReturnedToken =>
       LET sc == last.scan
           t == last.out.token
       IN /\ \A n \in 1..Len(sc) :
               /\ sc[n].at = (IF n = 1 THEN last.before
                              ELSE After(sc[n - 1].at, sc[n - 1].text))
               /\ n < Len(sc) => sc[n].ret = ""
          /\ IsEofOut(last.out) =>
               /\ \A n \in 1..Len(sc) : sc[n].ret = ""
               /\ t.value = <<EOF>>
          /\ ~IsEofOut(last.out) =>
               /\ sc # <<>>
               /\ sc[Len(sc)].ret # ""
               /\ t.kind = TOKENS_MAP[sc[Len(sc)].ret]
               /\ t.start_offset = sc[Len(sc)].at
               /\ t.start_offset <= t.end_offset
               /\ t.end_offset <= Len(tokenizer.string)
               /\ SubSeq(tokenizer.string, t.start_offset + 1, t.end_offset)
                    = sc[Len(sc)].text
               /\ t.value = (IF table.handlers[sc[Len(sc)].rule].synth = <<>>
                             THEN sc[Len(sc)].text
                             ELSE table.handlers[sc[Len(sc)].rule].synth)
  /\ CalcScanDone =>
       /\ Len(hist.emitted) = Len(CalcExpected) + 1
       /\ \A n \in 1..Len(CalcExpected) :
            LET o == hist.emitted[n]
            IN /\ o.type = "token"
               /\ o.token.kind = CalcExpected[n].kind
               /\ o.token.value = CalcExpected[n].value
               /\ o.token.start_offset = CalcExpected[n].s
               /\ o.token.end_offset = CalcExpected[n].e
       /\ IsEofOut(hist.emitted[Len(hist.emitted)])

\* The calculator has scanned "2 + 2 * 2" to the end, skipping whitespace.
C9_Witness ==
  /\ CalcScanDone
  /\ IsGnt
  /\ Len(last.scan) = 0
  /\ Len(hist.emitted) > 1

\* C10. 1-based lines: every token returned after init_string, the
\* end-of-stream token included, has start_line >= 1, end_line >= start_line
\* and non-negative columns.
C10_OneBasedLines ==
  (hist.inited /\ ReturnedToken) =>
    /\ last.out.token.start_line >= 1
    /\ last.out.token.end_line >= last.out.token.start_line
    /\ last.out.token.start_column >= 0
    /\ last.out.token.end_column >= 0

---------------------------------------------------------------------------
\* Whether the last call popped a state: pop_state itself, or a
\* get_next_token call one of whose handlers popped.
Popped(call) ==
  \/ call.op = "pop_state"
  \/ /\ call.op = "get_next_token"
     /\ \E n \in 1..Len(call.scan) :
          table.handlers[call.scan[n].rule].op = "pop"

\* C11 as stated. State stack non-emptiness: once init_string has been
\* called the state stack is non-empty in every reachable state.
C11_StackNonEmpty == hist.inited => tokenizer.states # <<>>

\* C11 as amended.  init_string leaves the stack non-empty, and a non-empty
\* stack becomes empty only by a pop (pop_state called by the caller or by a
\* handler during get_next_token), which may remove the bottom INITIAL entry;
\* init_string, push_state, begin and handlers that do not pop never empty it.
C11_StackEmptiedOnlyByPop ==
  [][/\ last'.op = "init_string" => tokenizer'.states # <<>>
     /\ (tokenizer.states # <<>> /\ tokenizer'.states = <<>>)
          => Popped(last')]_vars

\* After init_string, a pop_state call removed the bottom entry.
C11_Witness ==
  /\ hist.inited
  /\ last.op = "pop_state"
  /\ last.depth = 1
  /\ tokenizer.states = <<>>

\* C12. State-stack underflow tolerance: pop_state returns the top of the
\* stack and removes it, and on an empty stack returns "INITIAL" and leaves
\* the stack empty; get_current_state is the top of the stack, or "INITIAL"
\* when the stack is empty.  Neither fails, before or after init_string.
C12_UnderflowTolerance ==
  [][/\ last'.op = "pop_state" =>
          /\ last'.out.type = "state"
          /\ IF tokenizer.states = <<>>
             THEN /\ last'.out.ch = INITIAL
                  /\ tokenizer' = tokenizer
             ELSE /\ last'.out.ch = tokenizer.states[Len(tokenizer.states)]
                  /\ tokenizer' =
                       [tokenizer EXCEPT
                          !.states = SubSeq(@, 1, Len(@) - 1)]
     /\ get_current_state(tokenizer') = TopOf(tokenizer'.states)
     /\ get_current_state(tokenizer') \in StateNames]_vars

\* pop_state was called on an empty stack before the first init_string.
C12_Witness ==
  /\ ~hist.inited
  /\ last.op = "pop_state"
  /\ last.depth = 0
  /\ last.out.ch = INITIAL
  /\ tokenizer.states = <<>>

\* C13. Single failure mode: a get_next_token call made after init_string
\* that returns no token has failed with the unexpected-token condition, at
\* a cursor that is not the end of the source and where no rule of the
\* active state matches; no content of the state stack makes it fail
\* otherwise.
C13_SingleFailureMode ==
  (hist.inited /\ IsGnt /\ last.out.type # "token") =>
    /\ last.out.type = "unexpected"
    /\ tokenizer.cursor < Len(tokenizer.string)
    /\ \A k \in 1..Len(ListOf(tokenizer.states)) :
         ~Matches(ListOf(tokenizer.states)[k], tokenizer.cursor)

\* C14. Cursor bounds and terminal value: after init_string the cursor stays
\* within 0..len(source)+1 and no get_next_token call moves it back; a call
\* takes it to len(source)+1 only by the end-of-stream advance, that is, no
\* rule matched at cursor = len(source) and the call returns the
\* end-of-stream token.
C14_CursorBounds ==
  hist.inited =>
    /\ 0 <= tokenizer.cursor
    /\ tokenizer.cursor <= Len(tokenizer.string) + 1
    /\ IsGnt => tokenizer.cursor >= last.before
    /\ (IsGnt /\ last.before <= Len(tokenizer.string)
          /\ tokenizer.cursor = Len(tokenizer.string) + 1) =>
         /\ IsEofOut(last.out)
         /\ Len(tokenizer.string) =
              (IF last.scan = <<>> THEN last.before
               ELSE last.scan[Len(last.scan)].at
                      + Len(last.scan[Len(last.scan)].text))
         /\ \A n \in 1..Len(last.scan) : last.scan[n].text # <<>>

\* The state stack a handler leaves, given the stack it found.
StackAfter(e) ==
  LET h == table.handlers[e.rule]
  IN CASE h.op = "begin" -> Append(e.states, h.st)
       [] h.op = "pop" -> SubSeq(e.states, 1, Len(e.states) - 1)
       [] OTHER -> e.states

\* C15. No silent skip after a lexical error: after a get_next_token call
\* failed with the unexpected-token condition, the cursor is at the offending
\* character, and cursor, state stack and line/column counters are those
\* left by the last match before the failing attempt; a further
\* get_next_token call fails with the same condition and changes nothing, so
\* no token is returned for the input after that character.
C15_NoSilentSkip ==
  (IsGnt /\ last.out.type = "unexpected") =>
    /\ tokenizer.cursor < Len(tokenizer.string)
    /\ tokenizer.string[tokenizer.cursor + 1] = last.out.ch
    /\ last.out.line = tokenizer.current_line
    /\ last.out.column = tokenizer.current_column
    /\ IF last.scan = <<>>
       THEN tokenizer.cursor = last.before
       ELSE LET e == last.scan[Len(last.scan)]
            IN /\ tokenizer.cursor = After(e.at, e.text)
               /\ tokenizer.states = StackAfter(e)
    /\ LET r == get_next_token(tokenizer, table, <<>>)
       IN /\ r.out = last.out
          /\ r.tk = tokenizer
          /\ r.scan = <<>>
    /\ hist.fails = 2 =>
         /\ last.scan = <<>>
         /\ last.before = tokenizer.cursor

\* get_next_token failed twice in a row at a character inside the source.
C15_Witness ==
  /\ IsGnt
  /\ last.out.type = "unexpected"
  /\ hist.fails = 2
  /\ tokenizer.cursor > 0

\* C17. No scanning past the end: a get_next_token call made when
\* has_more_tokens() is false returns the end-of-stream token, matches no
\* rule and runs no handler, and leaves the cursor, the line and column
\* counters, the line-begin offset, the state stack and yybuffer unchanged.
C17_NoScanPastEnd ==
  [][(last'.op = "get_next_token" /\ ~has_more_tokens(tokenizer)) =>
       /\ IsEofOut(last'.out)
       /\ last'.out.token.value = <<EOF>>
       /\ last'.scan = <<>>
       /\ tokenizer'.cursor = tokenizer.cursor
       /\ tokenizer'.current_line = tokenizer.current_line
       /\ tokenizer'.current_column = tokenizer.current_column
       /\ tokenizer'.current_line_begin_offset =
            tokenizer.current_line_begin_offset
       /\ tokenizer'.states = tokenizer.states
       /\ tokenizer'.yybuffer = tokenizer.yybuffer
       /\ tokenizer'.string = tokenizer.string]_vars

\* get_next_token was called past the end of the source with a pushed state
\* on the stack and synthetic text in the buffer.
C17_Witness ==
  /\ IsGnt
  /\ last.before = Len(tokenizer.string) + 1
  /\ IsEofOut(last.out)
  /\ Len(tokenizer.states) > 1
  /\ tokenizer.yybuffer # <<>>

\* C18. Push/pop round trip: push_state(s) and begin(s) have the same
\* effect, appending exactly s to the state stack and changing nothing else;
\* for every stack content a pop_state() right after the push returns s and
\* leaves the stack as it was before the push, and get_current_state() right
\* after the push returns s.
C18_PushPopRoundTrip ==
  [][(last'.op \in {"push_state", "begin"}) =>
       \E s \in StateNames :
         /\ tokenizer' = [tokenizer EXCEPT !.states = Append(@, s)]
         /\ push_state(tokenizer, s) = tokenizer'
         /\ begin(tokenizer, s) = tokenizer'
         /\ get_current_state(tokenizer') = s
         /\ pop_state(tokenizer').ret = s
         /\ pop_state(tokenizer').tk = tokenizer]_vars

\* begin pushed a state on a stack that pop_state had emptied, after some of
\* the source had been consumed.
C18_Witness ==
  /\ last.op = "begin"
  /\ last.depth = 0
  /\ Len(tokenizer.states) = 1
  /\ get_current_state(tokenizer) = "S"
  /\ tokenizer.cursor > 1

---------------------------------------------------------------------------
\* The synthetic-text buffer under a caller that also calls string_ref and
\* set_yytext itself, with texts that differ from the handlers' text.

CallerTexts == {Synth, <<"%">>}

StringRef ==
  \E s \in CallerTexts :
    /\ Len(tokenizer.yybuffer) < MaxBuf
    /\ tokenizer' = string_ref(tokenizer, s)
    /\ last' = Call("string_ref", tokenizer, NoOut, <<>>)
    /\ hist' = CallerTouch
    /\ UNCHANGED table

SetYytext ==
  \E s \in CallerTexts :
    /\ Len(tokenizer.yybuffer) < MaxBuf
    /\ tokenizer' = set_yytext(tokenizer, s)
    /\ last' = Call("set_yytext", tokenizer, NoOut, <<>>)
    /\ hist' = CallerTouch
    /\ UNCHANGED table

BufInit ==
  /\ tokenizer = New
  /\ table = ModeTable
  /\ last = Call("new", New, NoOut, <<>>)
  /\ hist = NoHist

BufNext ==
  \/ InitString
  \/ GetNextToken
  \/ PushState
  \/ PopState
  \/ StringRef
  \/ SetYytext

BufSpec == BufInit /\ [][BufNext]_vars

IsPrefix(a, b) == Len(a) <= Len(b) /\ SubSeq(b, 1, Len(a)) = a

\* C19. Synthetic text retention: the entries of yybuffer are only ever
\* appended; set_yytext, string_ref, get_next_token, init_string, push_state
\* and pop_state never remove, reorder or overwrite an existing entry, so the
\* buffer before any step is a prefix of the buffer after it, also across a
\* reset to a new source.
C19_SyntheticTextRetention ==
  [][IsPrefix(tokenizer.yybuffer, tokenizer'.yybuffer)]_vars

\* The engine was reset to a new source while its buffer held two different
\* synthetic texts, one of them put there by a handler during a scan.
C19_Witness ==
  /\ last.op = "init_string"
  /\ Len(tokenizer.yybuffer) = 2
  /\ tokenizer.yybuffer[1] # tokenizer.yybuffer[2]
  /\ hist.used

\* C20. Matched-length consistency: whenever get_next_token has returned a
\* token, yyleng equals the length of the current yytext, whether yytext was
\* set by a rule match, replaced by set_yytext in the handler, or set to the
\* EOF marker on an end-of-stream path.
C20_MatchedLengthConsistency ==
  ReturnedToken => tokenizer.yyleng = Len(tokenizer.yytext)

---------------------------------------------------------------------------
\* get_next_token pass by pass: every ScanStep is one pass through the body
\* of get_next_token.  last.op is "scanning" while a call is in its skip
\* recursion and "get_next_token" when the call has returned or failed;
\* last.scan holds the match of the last pass only.

\* A table whose skipping rule can match the empty string.
SkipTable ==
  [rules |-> <<Plus(DIGIT), Star(WS)>>,
   handlers |-> <<Handler("NUMBER", "none", "", <<>>),
                  Handler("", "none", "", <<>>)>>,
   byState |-> [s \in {INITIAL} |-> <<1, 2>>]]

StepTables == Tables \cup {SkipTable}

StepInit ==
  /\ table \in StepTables
  /\ tokenizer \in {init_string(New, string) : string \in Sources}
  /\ last = Call("init_string", New, NoOut, <<>>)
  /\ hist = NoHist

ScanStep ==
  LET b == gnt_body(tokenizer, table)
  IN /\ tokenizer' = b.tk
     /\ last' = [op |-> IF b.again THEN "scanning" ELSE "get_next_token",
                 before |-> IF last.op = "scanning" THEN last.before
                            ELSE tokenizer.cursor,
                 depth |-> IF last.op = "scanning" THEN last.depth
                           ELSE Len(tokenizer.states),
                 out |-> b.out, scan |-> b.scan]
     /\ UNCHANGED <<table, hist>>

StepNext == ScanStep

\* The call is synchronous: a pass that can be made is made.
StepSpec == StepInit /\ [][StepNext]_vars /\ WF_vars(ScanStep)

\* C16. Forward progress: every get_next_token call returns or fails, also
\* with rules that match the empty string and handlers that skip: a pass
\* that matched has moved the cursor forward by at least one position, and a
\* call in its skip recursion eventually ends.
C16_ForwardProgress ==
  /\ [][(last'.scan # <<>>) => tokenizer'.cursor >= tokenizer.cursor + 1]_vars
  /\ [](tokenizer.cursor <= Len(tokenizer.string) + 1)
  /\ (last.op = "scanning") ~> (last.op = "get_next_token")

\* A zero-length match was skipped and the call goes on scanning.
C16_Witness ==
  /\ last.op = "scanning"
  /\ last.scan # <<>>
  /\ last.scan[1].text = <<>>
  /\ last.scan[1].ret = ""

====
